---- MODULE Spec2Model ----
(***************************************************************************)
(* Model of streamlit_app_thingspeak.py: the ThingSpeak feed pipeline      *)
(* (fetch_thingspeak, latest_value, resample_series, latest_lin_params,    *)
(* plot_metric, plot_air_temp_with_trend), the threshold colouring of the  *)
(* summary cards (_bg_for_main) and the st.cache_data(ttl=300) cache in    *)
(* front of fetch_thingspeak.                                              *)
(*                                                                         *)
(* Time is counted in whole minutes.  A float is modelled by an integer,   *)
(* a missing value (NaN / NaT / None) by the empty sequence <<>> and a     *)
(* present value v by <<v>>.  A mean is kept exact as <<sum, count>>.      *)
(***************************************************************************)
EXTENDS Integers, Sequences, FiniteSets, TLC

VARIABLES
    feeds,       \* payload["feeds"]: the raw records of the response
    timezone,    \* tz: sidebar "Time Zone"
    res_min,     \* res_min: sidebar "Resampling (min)"
    df,          \* the table returned by fetch_thingspeak
    pc,          \* position of the script run
    page,        \* sidebar "Ver": the selected page
    kpi,         \* (val, ts) shown by kpi_card_full
    series,      \* the series handed to px.line
    lin_params,  \* (m, b) of latest_lin_params
    trend,       \* the "Trend (last 30 + proj)" trace: x = idx_ext, y = yhat
    metric_key,  \* argument of _bg_for_main
    value,       \* argument of _bg_for_main (tenths of a unit)
    bg,          \* colour returned by _bg_for_main
    cache,       \* st.cache_data entries of fetch_thingspeak, by (channel_id, use_range)
    now,         \* wall clock, seconds
    clears,      \* how many times "Update Data" has cleared the cache
    use_range,   \* sidebar "Use Date Range": an argument of fetch_thingspeak
    run,         \* position of the script run: idle, soil, env, page
    snap,        \* the snapshot the run got for each channel
    fetches,     \* requests.get calls issued by the run
    refreshed    \* the run is the rerun that follows "Update Data"

tableVars == <<feeds, timezone, res_min, df, pc, page, kpi, series, lin_params, trend>>
bgVars == <<metric_key, value, bg>>
cacheVars == <<cache, now, clears, use_range, run, snap, fetches, refreshed>>
vars == <<tableVars, bgVars, cacheVars>>

----------------------------------------------------------------------------
(* Bounds of the model *)

MaxFeeds == 2       \* records in a response (short tables)
MaxT == 3           \* instants 0..MaxT of the short tables
MaxRes == 3         \* resampling widths 1..MaxRes
MaxRows == 32       \* records in a response (long tables, one a minute)
MaxGap == 2         \* consecutive records of a long table without field1
Transition == 2     \* instant at which the zone with a clock change is set back
SetBack == 2        \* minutes the clock is set back at Transition

MaxTenths == 700    \* card values 0.0 .. MaxTenths / 10
MaxClock == 600     \* seconds the clock runs
MaxClears == 2      \* presses of "Update Data"

(* Program constants *)
CHANNEL_SOIL == 2869579
CHANNEL_ENV == 2913085
TTL == 300
DEFAULT_RES_MIN == 10
WindowSize == 30
steps_future == 100

NaN == <<>>
NoneNone == <<NaN, NaN>>
DayMinutes == 24 * 60

Min(a, b) == IF a <= b THEN a ELSE b

----------------------------------------------------------------------------
(* Time zones.  The offset of a zone is counted relative to its standard   *)
(* offset: "America/Monterrey" keeps one offset, "America/Chicago" is      *)
(* SetBack minutes ahead until Transition and on standard time after it.   *)

Zones == {"America/Monterrey", "America/Chicago"}

UtcOffset(tz, t) ==
    IF tz = "America/Chicago" /\ t < Transition THEN SetBack ELSE 0

(* The created_at string of a record, as the remote API writes it for the  *)
(* requested zone: wall-clock time and offset; iso = FALSE is a string     *)
(* that is no timestamp.                                                   *)
CreatedAt(tz, t) == [iso |-> TRUE, wall |-> t + UtcOffset(tz, t), off |-> UtcOffset(tz, t)]
Junk == [iso |-> FALSE, wall |-> 0, off |-> 0]

(* pd.to_datetime(..., utc=True, errors="coerce") *)
ToDatetimeUtc(s) == IF s.iso THEN <<s.wall - s.off>> ELSE NaN

(* .dt.tz_convert(timezone) followed by tz_localize(None): the wall clock  *)
(* of an instant in the zone.                                              *)
TzConvertNaive(tz, t) == t + UtcOffset(tz, t)

(* pd.to_numeric(..., errors="coerce") on a raw field string *)
FieldStrings == {"", "abc", "1", "2"}

ToNumeric(s) ==
    CASE s = "1" -> <<1>>
      [] s = "2" -> <<2>>
      [] OTHER -> NaN

Columns == {"field1", "field5", "field6"}

----------------------------------------------------------------------------
(* fetch_thingspeak: normalisation of the records *)

Parses(rec) == ToDatetimeUtc(rec.created_at) # NaN

(* variant: dropna() without subset, a record with an unusable field1 is dropped too *)
DropNaAnyColumn(recs) ==
    SelectSeq(recs, LAMBDA r : Parses(r) /\ ToNumeric(r.field1) # NaN)

(* df.dropna(subset=["created_at"]) *)
DropNaT(recs) == SelectSeq(recs, Parses)

(* one row of the table: the created_at column (an instant), the naive     *)
(* local index and the numeric fields                                      *)
Row(rec, tz) ==
    LET t == ToDatetimeUtc(rec.created_at)[1]
    IN  [created_at |-> t,
         index |-> TzConvertNaive(tz, t),
         field1 |-> ToNumeric(rec.field1),
         field5 |-> ToNumeric(rec.field5),
         field6 |-> ToNumeric(rec.field6)]

(* set_index("created_at_local").sort_index() runs while the index still   *)
(* carries its zone, so the rows are ordered by instant; rows of the same  *)
(* instant may come out in either order (quicksort is not stable).         *)
SortKey(row) == row.created_at

RECURSIVE SortOrders(_, _)
SortOrders(rows, idxs) ==
    IF idxs = {} THEN {<<>>}
    ELSE LET mins == {i \in idxs : \A j \in idxs : SortKey(rows[i]) <= SortKey(rows[j])}
         IN  UNION {{<<rows[i]>> \o rest : rest \in SortOrders(rows, idxs \ {i})} : i \in mins}

SortIndex(rows) == SortOrders(rows, DOMAIN rows)

Normalize(recs, tz) ==
    LET kept == DropNaT(recs)
    IN  SortIndex([i \in DOMAIN kept |-> Row(kept[i], tz)])

Empty(table) == table = <<>>
HasColumn(table, field) == field \in Columns

----------------------------------------------------------------------------
(* latest_value *)

NotNa(table, field) == SelectSeq(table, LAMBDA r : r[field] # NaN)

(* variant: head(1) *)
Head1(s) == IF s = <<>> THEN <<>> ELSE <<s[1]>>

Tail1(s) == IF s = <<>> THEN <<>> ELSE <<s[Len(s)]>>

latest_value(table, field) ==
    IF Empty(table) \/ ~HasColumn(table, field) THEN NoneNone
    ELSE LET last_row == Tail1(NotNa(table, field))
         IN  IF last_row = <<>> THEN NoneNone
             ELSE <<last_row[1][field], <<last_row[1].index>>>>

----------------------------------------------------------------------------
(* resample_series: df[field].resample(f"{minutes}T", label="right").mean() *)

RECURSIVE SeqMin(_)
SeqMin(s) == IF Len(s) = 1 THEN s[1] ELSE Min(s[1], SeqMin(Tail(s)))

Max(a, b) == IF a >= b THEN a ELSE b

RECURSIVE SeqMax(_)
SeqMax(s) == IF Len(s) = 1 THEN s[1] ELSE Max(s[1], SeqMax(Tail(s)))

RECURSIVE SeqSum(_)
SeqSum(s) == IF s = <<>> THEN 0 ELSE s[1] + SeqSum(Tail(s))

Index(table) == [i \in DOMAIN table |-> table[i].index]

(* origin="start_day": midnight of the first timestamp's day *)
Origin(table) == (SeqMin(Index(table)) \div DayMinutes) * DayMinutes

(* _adjust_dates_anchored with closed="left" (the default of a minute      *)
(* frequency): the first edge is the first timestamp floored to the grid,  *)
(* the last edge lies strictly after the last timestamp.                   *)
FirstEdge(table, minutes) ==
    LET first == SeqMin(Index(table))
    IN  first - ((first - Origin(table)) % minutes)

LastEdge(table, minutes) ==
    LET last == SeqMax(Index(table))
    IN  last - ((last - Origin(table)) % minutes) + minutes

(* variant: closed="right" membership *)
InBinClosedRight(ts, lo, hi) == lo < ts /\ ts <= hi

(* generate_bins_dt64(values, edges, closed="left"): the rows of the bin   *)
(* between two consecutive edges                                           *)
InBin(ts, lo, hi) == lo <= ts /\ ts < hi

(* variant: an empty bin filled with 0 *)
MeanOrZero(vals) == IF vals = <<>> THEN <<0, 1>> ELSE <<SeqSum(vals), Len(vals)>>

(* .mean(): the NaN values are skipped, a bin without values gives NaN *)
Mean(vals) == IF vals = <<>> THEN NaN ELSE <<SeqSum(vals), Len(vals)>>

BinValues(table, field, lo, hi) ==
    LET rows == SelectSeq(table, LAMBDA r : InBin(r.index, lo, hi) /\ r[field] # NaN)
    IN  [i \in DOMAIN rows |-> rows[i][field][1]]

(* label="right": a bin is labelled by the edge that closes it *)
BinLabel(lo, hi) == hi

resample_series(table, field, minutes) ==
    IF Empty(table) \/ ~HasColumn(table, field) THEN <<>>
    ELSE LET e0 == FirstEdge(table, minutes)
             nb == (LastEdge(table, minutes) - e0) \div minutes
         IN  [k \in 1..nb |->
                 LET lo == e0 + (k - 1) * minutes
                     hi == e0 + k * minutes
                 IN  [label |-> BinLabel(lo, hi),
                      mean |-> Mean(BinValues(table, field, lo, hi))]]

(* Series.dropna() *)
DropNa(s) == SelectSeq(s, LAMBDA e : e.mean # NaN)

----------------------------------------------------------------------------
(* latest_lin_params *)

(* variant: iloc[0] *)
FirstNotNa(table, field) ==
    LET s == NotNa(table, field)
    IN  IF s = <<>> THEN NaN ELSE s[1][field]

LastNotNa(table, field) ==
    LET s == NotNa(table, field)
    IN  IF s = <<>> THEN NaN ELSE s[Len(s)][field]

latest_lin_params(table) ==
    LET m == IF ~Empty(table) /\ HasColumn(table, "field5")
             THEN LastNotNa(table, "field5") ELSE NaN
        b == IF ~Empty(table) /\ HasColumn(table, "field6")
             THEN LastNotNa(table, "field6") ELSE NaN
    IN  IF m = NaN \/ b = NaN THEN NoneNone ELSE <<m, b>>

----------------------------------------------------------------------------
(* plot_air_temp_with_trend: the projected trend trace *)

NoTrend == [x |-> <<>>, y |-> <<>>]

(* variant: the window is not capped *)
WindowLenUncapped(s) == Len(s)

(* n = min(30, len(series)) *)
WindowLen(s) == Min(WindowSize, Len(s))

(* idx = series.index[-n:] *)
Window(s) ==
    LET n == WindowLen(s)
    IN  [i \in 1..n |-> s[Len(s) - n + i].label]

(* x = list(range(n + steps_future)) *)
TrendSteps(s) == WindowLen(s) + steps_future

(* variant: always the configured bucket width *)
FreqBucketWidth(idx, minutes) == minutes

(* freq = (idx[1] - idx[0]) if len(idx) > 1 else pd.Timedelta(minutes=res_min) *)
Freq(idx, minutes) == IF Len(idx) > 1 THEN idx[2] - idx[1] ELSE minutes

TrendTrace(s, mb, minutes) ==
    IF mb[1] # NaN /\ mb[2] # NaN /\ s # <<>>
    THEN LET idx == Window(s)
             len == TrendSteps(s)
             freq == Freq(idx, minutes)
         IN  [x |-> [i \in 1..len |-> idx[1] + (i - 1) * freq],
              y |-> [i \in 1..len |-> mb[1][1] * (i - 1) + mb[2][1]]]
    ELSE NoTrend

---------------------------------------------------------------------------------------------------------------------------------------------------
(* Summary cards: _in_range and _bg_for_main.  Values and limits are in    *)
(* tenths of the unit, so that 5.5 and 6.8 are the integers 55 and 68.     *)

MetricKeys == {"soil_moist", "air_temp", "air_hum", "soil_ph"}

LIMITS_MAIN(key) ==
    CASE key = "soil_moist" -> <<250, 500>>
      [] key = "air_temp" -> <<200, 300>>
      [] key = "air_hum" -> <<400, 600>>
      [] key = "soil_ph" -> <<55, 68>>

(* variant: exclusive bounds *)
in_range_strict(val, lo_hi) == val # NaN /\ lo_hi[1] < val[1] /\ val[1] < lo_hi[2]

in_range(val, lo_hi) == val # NaN /\ lo_hi[1] <= val[1] /\ val[1] <= lo_hi[2]

bg_for_main(key, val) ==
    IF val = NaN THEN "#3F4F61"
    ELSE IF ~in_range(val, LIMITS_MAIN(key)) THEN "red" ELSE "#3F4F61"

BgForMain ==
    /\ bg = ""
    /\ bg' = bg_for_main(metric_key, value)
    /\ UNCHANGED <<metric_key, value>>
    /\ UNCHANGED <<tableVars, cacheVars>>

----------------------------------------------------------------------------
(* The cache in front of fetch_thingspeak and the script runs that use it  *)

Channels == {CHANNEL_SOIL, CHANNEL_ENV}
Keys == Channels \X BOOLEAN
NoSnap == [c \in Channels |-> <<>>]
EmptyCache == [k \in Keys |-> <<>>]

(* variant: the clear is lost *)
KeepCache(c) == c

(* st.cache_data.clear() *)
ClearCache(c) == EmptyCache

(* ttl=300: an entry is served while it is younger than the ttl *)
Fresh(entry, t) == entry # <<>> /\ t - entry[1].at < TTL

(* a page load or a control change starts a run *)
RunScript(r) ==
    /\ run = "idle"
    /\ use_range' = r
    /\ run' = "soil"
    /\ snap' = NoSnap
    /\ fetches' = 0
    /\ refreshed' = FALSE
    /\ UNCHANGED <<cache, now, clears>>
    /\ UNCHANGED <<tableVars, bgVars>>

(* the run in which the button is pressed clears the cache and reruns *)
UpdateData ==
    /\ run = "idle"
    /\ clears < MaxClears
    /\ cache' = ClearCache(cache)
    /\ clears' = clears + 1
    /\ run' = "soil"
    /\ snap' = NoSnap
    /\ fetches' = 0
    /\ refreshed' = TRUE
    /\ UNCHANGED <<now, use_range>>
    /\ UNCHANGED <<tableVars, bgVars>>

(* a call of the cached fetch_thingspeak that is served from the cache *)
CacheHit(ch, at, next) ==
    /\ run = at
    /\ Fresh(cache[<<ch, use_range>>], now)
    /\ snap' = [snap EXCEPT ![ch] =
                   <<[at |-> cache[<<ch, use_range>>][1].at,
                      clears |-> cache[<<ch, use_range>>][1].clears,
                      age |-> now - cache[<<ch, use_range>>][1].at,
                      remote |-> FALSE]>>]
    /\ run' = next
    /\ UNCHANGED <<cache, now, clears, use_range, fetches, refreshed>>
    /\ UNCHANGED <<tableVars, bgVars>>

(* a call that runs the function body and gets a response: stored *)
RemoteFetch(ch, at, next) ==
    /\ run = at
    /\ ~Fresh(cache[<<ch, use_range>>], now)
    /\ fetches' = fetches + 1
    /\ cache' = [cache EXCEPT ![<<ch, use_range>>] = <<[at |-> now, clears |-> clears]>>]
    /\ snap' = [snap EXCEPT ![ch] =
                   <<[at |-> now, clears |-> clears, age |-> 0, remote |-> TRUE]>>]
    /\ run' = next
    /\ UNCHANGED <<now, clears, use_range, refreshed>>
    /\ UNCHANGED <<tableVars, bgVars>>

(* a call whose request fails: raise_for_status ends the run, nothing is stored *)
FetchError(at) ==
    /\ run = at
    /\ \E ch \in Channels :
          /\ at = (IF ch = CHANNEL_SOIL THEN "soil" ELSE "env")
          /\ ~Fresh(cache[<<ch, use_range>>], now)
    /\ fetches' = fetches + 1
    /\ run' = "idle"
    /\ UNCHANGED <<cache, now, clears, use_range, snap, refreshed>>
    /\ UNCHANGED <<tableVars, bgVars>>

RenderPage ==
    /\ run = "page"
    /\ run' = "idle"
    /\ UNCHANGED <<cache, now, clears, use_range, snap, fetches, refreshed>>
    /\ UNCHANGED <<tableVars, bgVars>>

(* time passes in steps of about half the ttl *)
Elapsed == {TTL \div 2 - 1, TTL \div 2}

Tick(d) ==
    /\ now + d <= MaxClock
    /\ now' = now + d
    /\ UNCHANGED <<cache, clears, use_range, run, snap, fetches, refreshed>>
    /\ UNCHANGED <<tableVars, bgVars>>

CacheNext ==
    \/ \E r \in BOOLEAN : RunScript(r)
    \/ UpdateData
    \/ CacheHit(CHANNEL_SOIL, "soil", "env")
    \/ CacheHit(CHANNEL_ENV, "env", "page")
    \/ RemoteFetch(CHANNEL_SOIL, "soil", "env")
    \/ RemoteFetch(CHANNEL_ENV, "env", "page")
    \/ FetchError("soil")
    \/ FetchError("env")
    \/ RenderPage
    \/ \E d \in Elapsed : Tick(d)

-----
(* The script run on one channel: fetch, then the selected page *)

(* The pages drawn by plot_metric and the field each one charts.  The one  *)
(* table of the model stands for the channel the page reads; "field4" is   *)
(* no column of it, so that page meets an absent field.                    *)
MetricPages == {"Soil Temperature", "Soil N concentration", "CO2 concentration"}

PageField(p) ==
    CASE p = "Soil Temperature" -> "field1"
      [] p = "Soil N concentration" -> "field5"
      [] p = "CO2 concentration" -> "field4"
      [] OTHER -> "field1"

FetchThingspeak ==
    /\ pc = "start"
    /\ df' \in Normalize(feeds, timezone)
    /\ pc' = "fetched"
    /\ UNCHANGED <<feeds, timezone, res_min, page, kpi, series, lin_params, trend>>
    /\ UNCHANGED <<bgVars, cacheVars>>

PlotMetric(p) ==
    /\ pc = "fetched"
    /\ page' = p
    /\ kpi' = latest_value(df, PageField(p))
    /\ series' = IF Empty(df) \/ ~HasColumn(df, PageField(p)) THEN series
                 ELSE resample_series(df, PageField(p), res_min)
    /\ pc' = "plot_metric"
    /\ UNCHANGED <<feeds, timezone, res_min, df, lin_params, trend>>
    /\ UNCHANGED <<bgVars, cacheVars>>

PlotAirTempWithTrend ==
    /\ pc = "fetched"
    /\ page' = "Air Temperature"
    /\ kpi' = latest_value(df, "field1")
    /\ IF Empty(df) \/ ~HasColumn(df, "field1")
       THEN UNCHANGED <<series, lin_params, trend>>
       ELSE /\ series' = DropNa(resample_series(df, "field1", res_min))
            /\ lin_params' = latest_lin_params(df)
            /\ trend' = TrendTrace(series', lin_params', res_min)
    /\ pc' = "plot_air_temp"
    /\ UNCHANGED <<feeds, timezone, res_min, df>>
    /\ UNCHANGED <<bgVars, cacheVars>>

TableNext ==
    \/ FetchThingspeak
    \/ \E p \in MetricPages : PlotMetric(p)
    \/ PlotAirTempWithTrend

----------------------------------------------------------------------------
(* Responses the remote API can give *)

Instants == 0..MaxT

SeqsUpTo(S, n) == UNION {[1..k -> S] : k \in 0..n}

RawRecords(createds, f1, f5, f6) ==
    [created_at : createds, field1 : f1, field5 : f5, field6 : f6]

Stamps(tz) == {CreatedAt(tz, t) : t \in Instants}

BgIdle == metric_key = "air_temp" /\ value = NaN /\ bg = ""

CacheIdle ==
    /\ cache = EmptyCache
    /\ now = 0
    /\ clears = 0
    /\ use_range = FALSE
    /\ run = "idle"
    /\ snap = NoSnap
    /\ fetches = 0
    /\ refreshed = FALSE

TableStart ==
    /\ df = <<>>
    /\ pc = "start"
    /\ page = "Resumen"
    /\ kpi = NoneNone
    /\ series = <<>>
    /\ lin_params = NoneNone
    /\ trend = NoTrend
    /\ BgIdle
    /\ CacheIdle

(* short responses: any timestamp string, any string in field1 *)
Init ==
    /\ timezone \in Zones
    /\ res_min = DEFAULT_RES_MIN
    /\ feeds \in SeqsUpTo(RawRecords(Stamps(timezone) \cup {Junk}, FieldStrings,
                                     {"abc", "2"}, {""}), MaxFeeds)
    /\ TableStart

Spec == Init /\ [][TableNext]_vars

(* short responses whose field5 and field6 vary *)
InitModel ==
    /\ timezone \in Zones
    /\ res_min = DEFAULT_RES_MIN
    /\ feeds \in SeqsUpTo(RawRecords(Stamps(timezone), {"1"},
                                     {"", "1", "2"}, {"", "1", "2"}), MaxFeeds)
    /\ TableStart

SpecModel == InitModel /\ [][TableNext]_vars

(* short responses under every resampling width *)
InitResample ==
    /\ timezone \in Zones
    /\ res_min \in 1..MaxRes
    /\ feeds \in SeqsUpTo(RawRecords(Stamps(timezone), {"", "1", "2"},
                                     {"1"}, {"1"}), MaxFeeds)
    /\ TableStart

SpecResample == InitResample /\ [][TableNext]_vars

(* long responses: one record a minute, a run of records without field1,   *)
(* the model fields in the last record                                     *)
LongFeed(tz, n, g, h, f5, f6) ==
    [i \in 1..n |->
        [created_at |-> CreatedAt(tz, i - 1),
         field1 |-> IF g <= i /\ i < g + h THEN "" ELSE IF i % 2 = 0 THEN "2" ELSE "1",
         field5 |-> IF i = n THEN f5 ELSE "",
         field6 |-> IF i = n THEN f6 ELSE ""]]

InitLong ==
    /\ timezone \in Zones
    /\ res_min \in 1..MaxRes
    /\ \E n \in 1..MaxRows, h \in 0..MaxGap, mb \in {<<"1", "2">>, <<"", "2">>, <<"1", "">>} :
          \E g \in 1..n :
             feeds = LongFeed(timezone, n, g, h, mb[1], mb[2])
    /\ TableStart

SpecTrend == InitLong /\ [][TableNext]_vars

----------------------------------------------------------------------------
(* Properties of the table pipeline *)

Fetched == pc # "start"
Plotted == pc \in {"plot_metric", "plot_air_temp"}
TrendDrawn == pc = "plot_air_temp" /\ trend # NoTrend

(* the anchor window of the trend: the trailing points of the charted series *)
AnchorN == IF Len(series) < WindowSize THEN Len(series) ELSE WindowSize
AnchorAt(i) == series[Len(series) - AnchorN + i].label
AnchorStep == IF AnchorN >= 2 THEN AnchorAt(2) - AnchorAt(1) ELSE res_min

(* C1 as claimed: whenever a trend is drawn it has exactly                 *)
(* WindowSize + steps_future = 130 timestamps and 130 values, and its      *)
(* first timestamp is the first timestamp of the anchor window.            *)
C1_Orig ==
    TrendDrawn =>
        /\ Len(trend.x) = WindowSize + steps_future
        /\ Len(trend.y) = WindowSize + steps_future
        /\ trend.x[1] = AnchorAt(1)

(* C1 amended: whenever a trend is drawn it has min(30, len(series)) + 100 *)
(* timestamps and as many values (130 only when the series has at least 30 *)
(* points), and its first timestamp is the first timestamp of the anchor   *)
(* window.                                                                 *)
C1_Amended ==
    TrendDrawn =>
        /\ Len(trend.x) = AnchorN + steps_future
        /\ Len(trend.y) = AnchorN + steps_future
        /\ trend.x[1] = AnchorAt(1)

C1_Witness == TrendDrawn /\ Len(series) > WindowSize /\ Len(trend.x) = WindowSize + steps_future

AxisOk == \A i \in DOMAIN trend.x : trend.x[i] = AnchorAt(1) + (i - 1) * AnchorStep
ValuesOk == \A i \in DOMAIN trend.y : trend.y[i] = lin_params[1][1] * (i - 1) + lin_params[2][1]
Overlay == \A i \in 1..AnchorN : i \in DOMAIN trend.x /\ trend.x[i] = AnchorAt(i)
Beyond == Cardinality({i \in DOMAIN trend.x : trend.x[i] > AnchorAt(AnchorN)}) = steps_future
EvenlySpaced == \A i \in 1..(AnchorN - 1) : AnchorAt(i + 1) - AnchorAt(i) = AnchorStep

(* C10 as claimed: the trend axis starts at the window's first timestamp   *)
(* and advances by the gap of the window's first two timestamps (or the    *)
(* bucket width), the value at step x is m*x + b, the first points fall on *)
(* the window's timestamps and exactly steps_future points lie beyond the  *)
(* window's last timestamp, for every working series.                      *)
C10_Orig == TrendDrawn => AxisOk /\ ValuesOk /\ Overlay /\ Beyond

(* C10 amended: axis, step and values as claimed; the overlay of the       *)
(* window and the exactly steps_future points beyond it hold when the      *)
(* window's timestamps are evenly spaced (no dropped bucket inside it).    *)
C10_Amended == TrendDrawn => AxisOk /\ ValuesOk /\ (EvenlySpaced => Overlay /\ Beyond)

C10_Witness == TrendDrawn /\ AnchorN = WindowSize /\ EvenlySpaced /\ Overlay /\ Beyond

(* a non-missing entry of the field with no later non-missing entry *)
IsLatest(i, f) ==
    /\ df[i][f] # NaN
    /\ \A k \in DOMAIN df : df[k][f] # NaN => df[k].created_at <= df[i].created_at

HasValue(f) == f \in Columns /\ \E i \in DOMAIN df : df[i][f] # NaN

(* C9 as claimed: (m, b) are field5 and field6 of the most recent reading, *)
(* (None, None) when that reading lacks either, and then no trend.         *)
C9_Orig ==
    (pc = "plot_air_temp" /\ df # <<>>) =>
        /\ \E i \in DOMAIN df :
              /\ \A k \in DOMAIN df : df[k].created_at <= df[i].created_at
              /\ lin_params = IF df[i].field5 # NaN /\ df[i].field6 # NaN
                              THEN <<df[i].field5, df[i].field6>> ELSE NoneNone
        /\ lin_params = NoneNone => trend = NoTrend

(* C9 amended: m is the latest non-missing field5 and b the latest         *)
(* non-missing field6 of the table, each looked up on its own (possibly in *)
(* different readings); (None, None) exactly when one of the two fields    *)
(* has no non-missing entry at all, and then no trend is drawn.            *)
C9_Amended ==
    (pc = "plot_air_temp" /\ df # <<>>) =>
        IF HasValue("field5") /\ HasValue("field6")
        THEN \E i, j \in DOMAIN df :
                /\ IsLatest(i, "field5")
                /\ IsLatest(j, "field6")
                /\ lin_params = <<df[i].field5, df[j].field6>>
        ELSE lin_params = NoneNone /\ trend = NoTrend

C9_Witness ==
    /\ pc = "plot_air_temp"
    /\ Len(df) >= 2
    /\ df[Len(df)].field5 = NaN
    /\ lin_params # NoneNone
    /\ trend # NoTrend

ShownField == IF pc = "plot_air_temp" THEN "field1" ELSE PageField(page)

(* C4: latest_value gives (None, None) when the table is empty, the field  *)
(* is no column or every entry is missing; otherwise the value and index   *)
(* timestamp of the chronologically last non-missing entry: missing        *)
(* entries after it are skipped, no earlier entry is returned.             *)
C4_Latest ==
    Plotted =>
        IF HasValue(ShownField)
        THEN \E i \in DOMAIN df :
                /\ IsLatest(i, ShownField)
                /\ \A k \in DOMAIN df : k > i => df[k][ShownField] = NaN
                /\ kpi = <<df[i][ShownField], <<df[i].index>>>>
        ELSE kpi = NoneNone

C4_Witness ==
    /\ pc = "plot_metric"
    /\ page = "Soil Temperature"
    /\ Len(df) >= 2
    /\ df[Len(df)].field1 = NaN
    /\ df[1].created_at < df[Len(df)].created_at
    /\ kpi # NoneNone

NumberOf(str) == CASE str = "1" -> <<1>> [] str = "2" -> <<2>> [] OTHER -> <<>>

RowOf(row, rec) ==
    /\ rec.created_at.iso
    /\ row.created_at = rec.created_at.wall - rec.created_at.off
    /\ \A c \in Columns : row[c] = NumberOf(rec[c])

(* C6: the table holds exactly the records whose created_at parses (the    *)
(* row count drops by the number of unparseable ones); a kept record keeps *)
(* every numeric field and a non-numeric or empty field string is missing  *)
(* for that field of that record only.                                     *)
C6_Normalized ==
    Fetched =>
        /\ Len(df) = Len(feeds) - Cardinality({i \in DOMAIN feeds : ~feeds[i].created_at.iso})
        /\ \E f \in [DOMAIN df -> DOMAIN feeds] :
              /\ \A i, j \in DOMAIN df : f[i] = f[j] => i = j
              /\ \A i \in DOMAIN df : RowOf(df[i], feeds[f[i]])

C6_Witness ==
    /\ pc = "fetched"
    /\ Len(df) = 1
    /\ Len(feeds) = 2
    /\ df[1].field1 = NaN
    /\ df[1].field5 # NaN
    /\ \E i \in DOMAIN feeds : feeds[i].created_at.iso /\ feeds[i].field1 = "abc"

(* C7 as claimed: the returned table is ascending by its naive local       *)
(* timestamp index, in every zone.                                         *)
C7_SortedByLocal ==
    Fetched => \A i, j \in DOMAIN df : i < j => df[i].index <= df[j].index

----------------------------------------------------------------------------
(* Properties of the resampled series *)

Charted == pc = "plot_metric" /\ PageField(page) \in Columns /\ df # <<>>

HasReading(i) == df[i][PageField(page)] # NaN

(* readings of the charted field with T - width <= t < T *)
LeftClosed(T) ==
    {i \in DOMAIN df : HasReading(i) /\ T - res_min <= df[i].index /\ df[i].index < T}

(* readings of the charted field with T - width < t <= T *)
RightClosed(T) ==
    {i \in DOMAIN df : HasReading(i) /\ T - res_min < df[i].index /\ df[i].index <= T}

RECURSIVE SumOf(_)
SumOf(I) ==
    IF I = {} THEN 0
    ELSE LET i == CHOOSE j \in I : TRUE
         IN  df[i][PageField(page)][1] + SumOf(I \ {i})

MeanOf(I) == IF I = {} THEN NaN ELSE <<SumOf(I), Cardinality(I)>>

(* the bucket boundaries of the charted series *)
Boundaries ==
    {series[k].label : k \in DOMAIN series} \cup {series[k].label - res_min : k \in DOMAIN series}

Labelled(T) == {k \in DOMAIN series : series[k].label = T}

(* C2 as claimed: the bucket labelled T holds the readings up to and       *)
(* including T, so a reading exactly on boundary T is averaged into the    *)
(* bucket labelled T.                                                      *)
C2_Orig ==
    Charted =>
        /\ \A k \in DOMAIN series : series[k].mean = MeanOf(RightClosed(series[k].label))
        /\ \A i \in DOMAIN df :
              (HasReading(i) /\ df[i].index \in Boundaries) =>
                  \E k \in Labelled(df[i].index) : series[k].mean # NaN

(* C2 amended: buckets are right-labelled and left-closed.  The bucket     *)
(* labelled T counts exactly the readings with T - width <= t < T, every   *)
(* reading falls in one bucket of the series, and a reading exactly on     *)
(* boundary T is averaged into the bucket labelled T + width.              *)
C2_Amended ==
    Charted =>
        /\ \A k \in DOMAIN series :
              IF LeftClosed(series[k].label) = {} THEN series[k].mean = NaN
              ELSE /\ series[k].mean # NaN
                   /\ series[k].mean[2] = Cardinality(LeftClosed(series[k].label))
        /\ \A i \in DOMAIN df :
              HasReading(i) => \E k \in DOMAIN series : i \in LeftClosed(series[k].label)
        /\ \A i \in DOMAIN df :
              (HasReading(i) /\ df[i].index \in Boundaries) =>
                  \E k \in Labelled(df[i].index + res_min) : series[k].mean # NaN

C2_Witness ==
    /\ Charted
    /\ res_min > 1
    /\ \E i \in DOMAIN df :
          /\ HasReading(i)
          /\ df[i].index \in Boundaries
          /\ Labelled(df[i].index) # {}
          /\ \E k \in Labelled(df[i].index + res_min) : series[k].mean = <<df[i][PageField(page)][1], 1>>

(* C3 as claimed: the series charted by plot_metric has no entry for a     *)
(* bucket without non-missing readings, and every entry is the mean of the *)
(* non-missing readings of its bucket.                                     *)
C3_Orig ==
    Charted =>
        \A k \in DOMAIN series :
            /\ LeftClosed(series[k].label) # {}
            /\ series[k].mean = MeanOf(LeftClosed(series[k].label))

(* C3 amended: the series of resample_series, charted as it is by          *)
(* plot_metric, has one entry for every bucket from the first row's to the *)
(* last row's; the entry of a bucket without non-missing readings is       *)
(* missing (NaN), never 0 or another number, and every other entry is the  *)
(* mean of exactly the non-missing readings of its bucket.  Only           *)
(* plot_air_temp_with_trend drops the missing entries.                     *)
C3_Amended ==
    /\ Charted =>
          /\ \A k \in DOMAIN series :
                /\ series[k].label = series[1].label + (k - 1) * res_min
                /\ series[k].mean = MeanOf(LeftClosed(series[k].label))
          /\ \A i \in DOMAIN df :
                /\ series[1].label - res_min <= df[i].index
                /\ df[i].index < series[Len(series)].label
          /\ \E i \in DOMAIN df : df[i].index < series[1].label
          /\ \E i \in DOMAIN df : series[Len(series)].label - res_min <= df[i].index
    /\ pc = "plot_air_temp" => \A k \in DOMAIN series : series[k].mean # NaN

C3_Witness ==
    /\ Charted
    /\ \E k \in DOMAIN series :
          /\ 1 < k
          /\ k < Len(series)
          /\ series[k].mean = NaN
          /\ series[1].mean # NaN

----------------------------------------------------------------------------
(* Specifications of the summary cards and of the cache *)

TableIdle ==
    /\ feeds = <<>>
    /\ timezone = "America/Monterrey"
    /\ res_min = DEFAULT_RES_MIN
    /\ df = <<>>
    /\ pc = "start"
    /\ page = "Resumen"
    /\ kpi = NoneNone
    /\ series = <<>>
    /\ lin_params = NoneNone
    /\ trend = NoTrend

InitBg ==
    /\ metric_key \in MetricKeys
    /\ value \in {NaN} \cup {<<v>> : v \in 0..MaxTenths}
    /\ bg = ""
    /\ TableIdle
    /\ CacheIdle

SpecBg == InitBg /\ [][BgForMain]_vars

InitCache == TableIdle /\ BgIdle /\ CacheIdle

SpecCache == InitCache /\ [][CacheNext]_vars

(* C5: the card is red exactly when the value is present and strictly      *)
(* below low or strictly above high of its metric's band (soil_moist       *)
(* [25,50], air_temp [20,30], air_hum [40,60], soil_ph [5.5,6.8]); a       *)
(* missing value and a value inside the inclusive band are not red.        *)
C5_Classify ==
    bg # "" =>
        LET lo == CASE metric_key = "soil_moist" -> 250 [] metric_key = "air_temp" -> 200
                    [] metric_key = "air_hum" -> 400 [] metric_key = "soil_ph" -> 55
            hi == CASE metric_key = "soil_moist" -> 500 [] metric_key = "air_temp" -> 300
                    [] metric_key = "air_hum" -> 600 [] metric_key = "soil_ph" -> 68
        IN  IF value = NaN THEN bg = "#3F4F61"
            ELSE /\ (value[1] < lo \/ value[1] > hi) => bg = "red"
                 /\ (lo <= value[1] /\ value[1] <= hi) => bg = "#3F4F61"

C5_Witness == metric_key = "soil_ph" /\ value = <<68>> /\ bg = "#3F4F61"

====
